---- MODULE Spec2Model ----
(***************************************************************************)
(* Flight reservation engine of src/main.rs: the catalog, the reservation *)
(* ledger, the per-date seat occupancy map and the id counter of          *)
(* ReservationSystem, with process_reserve and process_cancel as the       *)
(* state-changing commands.                                                *)
(*                                                                         *)
(* Strings are modelled by what the code reads from them:                  *)
(*   - a seat id is the sequence of its characters (a character is a      *)
(*     one-letter string; "U+00E9" stands for a two-byte UTF-8 character); *)
(*   - a date "YYYY/MM/DD" is the tuple <<Y, M, D>> of its decimal fields, *)
(*     a time "HH:MM:SS" the tuple <<H, M, S>>, and a timestamp            *)
(*     "YYYY/MM/DD-HH:MM:SS" the pair <<date, time>>;                      *)
(*   - a returned line is the tuple of its words.                          *)
(* Option values are <<"None">> and <<"Some", v>>; a panic (the process    *)
(* aborts) is <<"panic">>.                                                 *)
(***************************************************************************)
EXTENDS Integers, Sequences, FiniteSets, TLC

VARIABLES flights, reservations, seat_reservations, next_reservation_id, output

vars == <<flights, reservations, seat_reservations, next_reservation_id, output>>

\* Bound of the model: the number of ids the ledger may hand out.
MaxReservations == 2

None == <<"None">>
Some(v) == <<"Some", v>>
Panic == <<"panic">>
IsSome(o) == o[1] = "Some"

----------------------------------------------------------------------------
(* Maps (HashMap): functions with a finite domain. *)

EmptyMap == [k \in {} |-> 0]

\* HashMap::insert
Insert(m, k, v) == [x \in (DOMAIN m) \cup {k} |-> IF x = k THEN v ELSE m[x]]

\* HashMap::entry(k).or_insert_with(HashMap::new)
OrInsertEmpty(m, k) == IF k \in DOMAIN m THEN m ELSE Insert(m, k, EmptyMap)

----------------------------------------------------------------------------
(* Characters and number parsing. *)

DigitChars == {"0", "1", "2", "3", "4", "5", "6", "7", "8", "9"}

DigitValue(c) ==
    CASE c = "0" -> 0 [] c = "1" -> 1 [] c = "2" -> 2 [] c = "3" -> 3
      [] c = "4" -> 4 [] c = "5" -> 5 [] c = "6" -> 6 [] c = "7" -> 7
      [] c = "8" -> 8 [] c = "9" -> 9

\* Number of bytes of a character in UTF-8.
Utf8Len(c) == IF c = "U+00E9" THEN 2 ELSE 1

RECURSIVE ByteLen(_)
\* str::len: the length in bytes.
ByteLen(s) == IF s = <<>> THEN 0 ELSE Utf8Len(Head(s)) + ByteLen(Tail(s))

\* u32::MAX = 4294967295, as its decimal digits.
U32MaxDigits == <<"4", "2", "9", "4", "9", "6", "7", "2", "9", "5">>

RECURSIVE StripZeros(_)
StripZeros(s) ==
    IF Len(s) > 1 /\ Head(s) = "0" THEN StripZeros(Tail(s)) ELSE s

RECURSIVE DigitsGreater(_, _)
\* a > b for two runs of digits of the same length.
DigitsGreater(a, b) ==
    IF a = <<>> THEN FALSE
    ELSE IF DigitValue(Head(a)) # DigitValue(Head(b))
         THEN DigitValue(Head(a)) > DigitValue(Head(b))
         ELSE DigitsGreater(Tail(a), Tail(b))

\* Whether a run of digits denotes a number above u32::MAX.
OverflowsU32(digits) ==
    LET d == StripZeros(digits)
    IN  \/ Len(d) > Len(U32MaxDigits)
        \/ Len(d) = Len(U32MaxDigits) /\ DigitsGreater(d, U32MaxDigits)

RECURSIVE DigitsValue(_, _)
\* The value of a run of decimal digits, most significant first.
DigitsValue(s, acc) ==
    IF s = <<>> THEN acc ELSE DigitsValue(Tail(s), 10 * acc + DigitValue(Head(s)))

\* str::parse::<u32>: an optional '+', then one or more digits, no overflow.
ParseU32(s) ==
    LET digits == IF s # <<>> /\ Head(s) = "+" THEN Tail(s) ELSE s
    IN  IF digits = <<>> THEN None
        ELSE IF \E i \in 1..Len(digits) : digits[i] \notin DigitChars THEN None
        ELSE IF OverflowsU32(digits) THEN None
        ELSE Some(DigitsValue(digits, 0))

RECURSIVE FormatU32(_)
\* format!("{}", row): the decimal digits of a number, without padding.
FormatU32(n) ==
    LET d == <<"0", "1", "2", "3", "4", "5", "6", "7", "8", "9">>[(n % 10) + 1]
    IN  IF n < 10 THEN <<d>> ELSE Append(FormatU32(n \div 10), d)

----------------------------------------------------------------------------
(* SeatType *)

SeatTypeVariants == <<"SeatType::A", "SeatType::B", "SeatType::C", "SeatType::D">>

as_char(seat_type) ==
    CASE seat_type = "SeatType::A" -> "A"
      [] seat_type = "SeatType::B" -> "B"
      [] seat_type = "SeatType::C" -> "C"
      [] seat_type = "SeatType::D" -> "D"

from_char(c) ==
    CASE c = "A" -> Some("SeatType::A")
      [] c = "B" -> Some("SeatType::B")
      [] c = "C" -> Some("SeatType::C")
      [] c = "D" -> Some("SeatType::D")
      [] OTHER -> None

----------------------------------------------------------------------------
(* Timestamps: a NaiveDateTime is <<day number, second of the day>>. *)

Ok(v) == <<"Ok", v>>
Err == <<"Err">>

\* Result::ok
ok(r) == IF r[1] = "Ok" THEN Some(r[2]) ELSE None

IsLeapYear(y) == (y % 4 = 0 /\ y % 100 # 0) \/ y % 400 = 0

DaysInMonth(y, m) ==
    IF m = 2 THEN (IF IsLeapYear(y) THEN 29 ELSE 28)
    ELSE IF m \in {4, 6, 9, 11} THEN 30 ELSE 31

\* Days of a common year before each month.
CumulativeDays == <<0, 31, 59, 90, 120, 151, 181, 212, 243, 273, 304, 334>>

DaysBeforeMonth(y, m) ==
    CumulativeDays[m] + (IF m > 2 /\ IsLeapYear(y) THEN 1 ELSE 0)

\* Days from 0001/01/01 to the given (valid) date.
DayNumber(y, m, d) ==
    365 * (y - 1) + ((y - 1) \div 4) - ((y - 1) \div 100) + ((y - 1) \div 400)
        + DaysBeforeMonth(y, m) + (d - 1)

SecondsPerHour == 3600
SecondsPerDay == 86400

\* NaiveDateTime::parse_from_str(s, "%Y/%m/%d-%H:%M:%S") on the text whose
\* fields are s = <<<<Y, M, D>>, <<H, Mi, S>>>>.  (The leap-second notation
\* :60 is not among the modelled texts.)
parse_from_str(s) ==
    LET y == s[1][1]  m == s[1][2]  d == s[1][3]
        h == s[2][1]  mi == s[2][2] sec == s[2][3]
    IN  IF /\ y \in 0..9999
           /\ m \in 1..12
           /\ d >= 1 /\ d <= DaysInMonth(y, m)
           /\ h \in 0..23 /\ mi \in 0..59 /\ sec \in 0..59
        THEN Ok(<<DayNumber(y, m, d), h * SecondsPerHour + mi * 60 + sec>>)
        ELSE Err

\* ReservationSystem::parse_datetime: format!("{}-{}", date, time), parsed.
parse_datetime(date, time) == ok(parse_from_str(<<date, time>>))

DeadlineHours == 2

\* NaiveDateTime - Duration::hours(hours)
SubHours(dt, hours) ==
    LET t == dt[2] - hours * SecondsPerHour
    IN  <<dt[1] + (t \div SecondsPerDay), t % SecondsPerDay>>

\* NaiveDateTime's >=
DateTimeGe(a, b) == a[1] > b[1] \/ (a[1] = b[1] /\ a[2] >= b[2])

\* is_too_late with > in place of >=.
is_too_late_strict(current_datetime, flight_datetime) ==
    LET deadline == SubHours(flight_datetime, DeadlineHours)
    IN  DateTimeGe(current_datetime, deadline) /\ current_datetime # deadline

\* ReservationSystem::is_too_late
is_too_late(current_datetime, flight_datetime) ==
    DateTimeGe(current_datetime, SubHours(flight_datetime, DeadlineHours))

\* ReservationSystem::get_flight_datetime
get_flight_datetime(date, flight) == parse_datetime(date, flight.departure_time)

----------------------------------------------------------------------------
(* SeatClass, Flight, Reservation *)

SeatClass(column, price) == [column |-> column, price |-> price]

\* Flight::new
NewFlight(flight_id, departure_airport, arrival_airport, departure_time, arrival_time, seat_classes) ==
    [flight_id |-> flight_id,
     departure_airport |-> departure_airport,
     arrival_airport |-> arrival_airport,
     departure_time |-> departure_time,
     arrival_time |-> arrival_time,
     seat_classes |-> seat_classes]

\* FirstClassIndex taking the last seat class with row <= column.
LastClassIndex(seat_classes, row) ==
    LET hits == {i \in 1..Len(seat_classes) : row <= seat_classes[i].column}
    IN  IF hits = {} THEN 0 ELSE CHOOSE i \in hits : \A j \in hits : i >= j

\* The index of the first seat class with row <= column, 0 when there is none.
FirstClassIndex(seat_classes, row) ==
    LET hits == {i \in 1..Len(seat_classes) : row <= seat_classes[i].column}
    IN  IF hits = {} THEN 0 ELSE CHOOSE i \in hits : \A j \in hits : i <= j

\* str::split_at: the two parts, or a panic when mid is not the byte offset
\* of a character boundary of s (a negative mid stands for the underflow of
\* len() - 1 on an empty string).
split_at(s, mid) ==
    LET cuts == {n \in 0..Len(s) : ByteLen(SubSeq(s, 1, n)) = mid}
    IN  IF cuts = {} THEN Panic
        ELSE LET n == CHOOSE n \in cuts : TRUE
             IN  <<SubSeq(s, 1, n), SubSeq(s, n + 1, Len(s))>>

\* Flight::get_seat_class
get_seat_class(flight, seat_id) ==
    LET parts == split_at(seat_id, ByteLen(seat_id) - 1)
    IN  IF parts = Panic THEN Panic
        ELSE
        LET row_part == parts[1]
            seat_type_char == parts[2]
            row == ParseU32(row_part)
        IN  IF ~IsSome(row) THEN None
            ELSE IF seat_type_char = <<>> THEN None
            ELSE IF ~IsSome(from_char(Head(seat_type_char))) THEN None
            ELSE LET i == FirstClassIndex(flight.seat_classes, row[2])
                 IN  IF i = 0 THEN None
                     ELSE Some(<<i, flight.seat_classes[i].price>>)

\* Reservation::new
NewReservation(reservation_id, user_id, date, flight_id, seat_id, price) ==
    [reservation_id |-> reservation_id,
     user_id |-> user_id,
     date |-> date,
     flight_id |-> flight_id,
     seat_id |-> seat_id,
     price |-> price,
     is_cancelled |-> FALSE]

----------------------------------------------------------------------------
(* ReservationSystem.  `self` is the record of its four fields. *)

\* ReservationSystem::new
NewSystem ==
    [flights |-> EmptyMap,
     reservations |-> EmptyMap,
     seat_reservations |-> EmptyMap,
     next_reservation_id |-> 1]

\* ReservationSystem::add_flight
add_flight(self, flight_id, departure_airport, arrival_airport, departure_time, arrival_time, seat_classes) ==
    [self EXCEPT !.flights =
        Insert(self.flights, flight_id,
               NewFlight(flight_id, departure_airport, arrival_airport,
                         departure_time, arrival_time, seat_classes))]

\* ReservationSystem::is_seat_reserved
is_seat_reserved(self, date, flight_id, seat_id) ==
    IF date \in DOMAIN self.seat_reservations
    THEN LET flights_on_date == self.seat_reservations[date]
         IN  IF flight_id \in DOMAIN flights_on_date
             THEN LET seats == flights_on_date[flight_id]
                  IN  IF seat_id \in DOMAIN seats THEN seats[seat_id] ELSE FALSE
             ELSE FALSE
    ELSE FALSE

\* reserve_seat with the flag written as false.
reserve_seat_unmarked(self, date, flight_id, seat_id) ==
    LET by_date == OrInsertEmpty(self.seat_reservations, date)
        by_flight == OrInsertEmpty(by_date[date], flight_id)
    IN  Insert(by_date, date,
               Insert(by_flight, flight_id,
                      Insert(by_flight[flight_id], seat_id, FALSE)))

\* ReservationSystem::reserve_seat: the new seat_reservations
reserve_seat(self, date, flight_id, seat_id) ==
    LET by_date == OrInsertEmpty(self.seat_reservations, date)
        by_flight == OrInsertEmpty(by_date[date], flight_id)
    IN  Insert(by_date, date,
               Insert(by_flight, flight_id,
                      Insert(by_flight[flight_id], seat_id, TRUE)))

\* unreserve_seat leaving the flag as it is.
unreserve_seat_kept(self, date, flight_id, seat_id) == self.seat_reservations

\* unreserve_seat clearing every seat of the flight on that date.
unreserve_seat_whole_flight(self, date, flight_id, seat_id) ==
    IF date \in DOMAIN self.seat_reservations
    THEN LET flights_on_date == self.seat_reservations[date]
         IN  IF flight_id \in DOMAIN flights_on_date
             THEN Insert(self.seat_reservations, date,
                         Insert(flights_on_date, flight_id,
                                [s \in DOMAIN flights_on_date[flight_id] \cup {seat_id}
                                    |-> FALSE]))
             ELSE self.seat_reservations
    ELSE self.seat_reservations

\* ReservationSystem::unreserve_seat: the new seat_reservations
unreserve_seat(self, date, flight_id, seat_id) ==
    IF date \in DOMAIN self.seat_reservations
    THEN LET flights_on_date == self.seat_reservations[date]
         IN  IF flight_id \in DOMAIN flights_on_date
             THEN Insert(self.seat_reservations, date,
                         Insert(flights_on_date, flight_id,
                                Insert(flights_on_date[flight_id], seat_id, FALSE)))
             ELSE self.seat_reservations
    ELSE self.seat_reservations

\* What a command handler leaves behind: the system and the returned line.
Returned(self, ret) == [self |-> self, ret |-> ret]

\* reserve_checks without the check of the flight's departure instant.
reserve_checks_any_date(self, current_datetime, date, flight_id, seat_id) ==
    IF flight_id \notin DOMAIN self.flights
    THEN <<"reserve:", "flight not found">>
    ELSE
    LET flight == self.flights[flight_id]
        current_dt == parse_from_str(current_datetime)
        flight_dt == get_flight_datetime(date, flight)
        seat_class == get_seat_class(flight, seat_id)
    IN  IF current_dt = Err
        THEN <<"reserve:", "invalid datetime">>
        ELSE IF flight_dt # None /\ is_too_late(current_dt[2], flight_dt[2])
        THEN <<"reserve:", "too late">>
        ELSE IF is_seat_reserved(self, date, flight_id, seat_id)
        THEN <<"reserve:", "already reserved">>
        ELSE IF seat_class = Panic
        THEN Panic
        ELSE IF seat_class = None
        THEN <<"reserve:", "invalid seat_id">>
        ELSE Ok(seat_class[2][2])

\* ReservationSystem::process_reserve, the checks before the ledger is
\* touched: the line of the first check that fails, a panic, or Ok(price).
reserve_checks(self, current_datetime, date, flight_id, seat_id) ==
    IF flight_id \notin DOMAIN self.flights
    THEN <<"reserve:", "flight not found">>
    ELSE
    LET flight == self.flights[flight_id]
        current_dt == parse_from_str(current_datetime)
        flight_dt == get_flight_datetime(date, flight)
        seat_class == get_seat_class(flight, seat_id)
    IN  IF current_dt = Err
        THEN <<"reserve:", "invalid datetime">>
        ELSE IF flight_dt = None
        THEN <<"reserve:", "invalid flight datetime">>
        ELSE IF is_too_late(current_dt[2], flight_dt[2])
        THEN <<"reserve:", "too late">>
        ELSE IF is_seat_reserved(self, date, flight_id, seat_id)
        THEN <<"reserve:", "already reserved">>
        ELSE IF seat_class = Panic
        THEN Panic
        ELSE IF seat_class = None
        THEN <<"reserve:", "invalid seat_id">>
        ELSE Ok(seat_class[2][2])

\* process_reserve allocating the id before the checks.
process_reserve_eager_id(self, current_datetime, user_id, date, flight_id, seat_id) ==
    LET checked == reserve_checks(self, current_datetime, date, flight_id, seat_id)
        allocated == [self EXCEPT
                        !.next_reservation_id = self.next_reservation_id + 1]
    IN  IF checked[1] # "Ok"
        THEN Returned(allocated, checked)
        ELSE
        LET price == checked[2]
            reservation == NewReservation(self.next_reservation_id, user_id,
                                          date, flight_id, seat_id, price)
        IN  Returned(
              [allocated EXCEPT
                 !.reservations =
                     Insert(self.reservations, self.next_reservation_id,
                            reservation),
                 !.seat_reservations =
                     reserve_seat(self, date, flight_id, seat_id)],
              <<"reserve:", self.next_reservation_id, price>>)

\* process_reserve moving the counter by two.
process_reserve_skip_id(self, current_datetime, user_id, date, flight_id, seat_id) ==
    LET checked == reserve_checks(self, current_datetime, date, flight_id, seat_id)
    IN  IF checked[1] # "Ok"
        THEN Returned(self, checked)
        ELSE
        LET price == checked[2]
            reservation == NewReservation(self.next_reservation_id, user_id,
                                          date, flight_id, seat_id, price)
        IN  Returned(
              [self EXCEPT
                 !.reservations =
                     Insert(self.reservations, self.next_reservation_id,
                            reservation),
                 !.seat_reservations =
                     reserve_seat(self, date, flight_id, seat_id),
                 !.next_reservation_id = self.next_reservation_id + 2],
              <<"reserve:", self.next_reservation_id, price>>)

\* ReservationSystem::process_reserve
process_reserve(self, current_datetime, user_id, date, flight_id, seat_id) ==
    LET checked == reserve_checks(self, current_datetime, date, flight_id, seat_id)
    IN  IF checked[1] # "Ok"
        THEN Returned(self, checked)
        ELSE
        LET price == checked[2]
            reservation == NewReservation(self.next_reservation_id, user_id,
                                          date, flight_id, seat_id, price)
        IN  Returned(
              [self EXCEPT
                 !.reservations =
                     Insert(self.reservations, self.next_reservation_id,
                            reservation),
                 !.seat_reservations =
                     reserve_seat(self, date, flight_id, seat_id),
                 !.next_reservation_id = self.next_reservation_id + 1],
              <<"reserve:", self.next_reservation_id, price>>)

\* cancel_checks with the time checks before the ownership check.
cancel_checks_time_first(self, current_datetime, user_id, reservation_id) ==
    IF reservation_id \notin DOMAIN self.reservations
    THEN <<"cancel:", "reservation not found">>
    ELSE
    LET reservation == self.reservations[reservation_id]
        current_dt == parse_from_str(current_datetime)
        flight_dt == get_flight_datetime(reservation.date,
                                         self.flights[reservation.flight_id])
    IN  IF reservation.is_cancelled
        THEN <<"cancel:", "reservation not found">>
        ELSE IF current_dt = Err
        THEN <<"cancel:", "invalid datetime">>
        ELSE IF flight_dt = None
        THEN <<"cancel:", "invalid flight datetime">>
        ELSE IF is_too_late(current_dt[2], flight_dt[2])
        THEN <<"cancel:", "too late">>
        ELSE IF reservation.user_id # user_id
        THEN <<"cancel:", "unauthorized operation">>
        ELSE Ok(reservation_id)

\* cancel_checks without the ownership check.
cancel_checks_any_user(self, current_datetime, user_id, reservation_id) ==
    IF reservation_id \notin DOMAIN self.reservations
    THEN <<"cancel:", "reservation not found">>
    ELSE
    LET reservation == self.reservations[reservation_id]
        current_dt == parse_from_str(current_datetime)
        flight_dt == get_flight_datetime(reservation.date,
                                         self.flights[reservation.flight_id])
    IN  IF reservation.is_cancelled
        THEN <<"cancel:", "reservation not found">>
        ELSE IF current_dt = Err
        THEN <<"cancel:", "invalid datetime">>
        ELSE IF flight_dt = None
        THEN <<"cancel:", "invalid flight datetime">>
        ELSE IF is_too_late(current_dt[2], flight_dt[2])
        THEN <<"cancel:", "too late">>
        ELSE Ok(reservation_id)

\* cancel_checks without the is_cancelled check.
cancel_checks_again(self, current_datetime, user_id, reservation_id) ==
    IF reservation_id \notin DOMAIN self.reservations
    THEN <<"cancel:", "reservation not found">>
    ELSE
    LET reservation == self.reservations[reservation_id]
        current_dt == parse_from_str(current_datetime)
        flight_dt == get_flight_datetime(reservation.date,
                                         self.flights[reservation.flight_id])
    IN  IF reservation.user_id # user_id
        THEN <<"cancel:", "unauthorized operation">>
        ELSE IF current_dt = Err
        THEN <<"cancel:", "invalid datetime">>
        ELSE IF flight_dt = None
        THEN <<"cancel:", "invalid flight datetime">>
        ELSE IF is_too_late(current_dt[2], flight_dt[2])
        THEN <<"cancel:", "too late">>
        ELSE Ok(reservation_id)

\* ReservationSystem::process_cancel, the block of checks: the line of the
\* first check that fails, a panic, or Ok(reservation_id).
cancel_checks(self, current_datetime, user_id, reservation_id) ==
    IF reservation_id \notin DOMAIN self.reservations
    THEN <<"cancel:", "reservation not found">>
    ELSE
    LET reservation == self.reservations[reservation_id]
    IN  IF reservation.is_cancelled
        THEN <<"cancel:", "reservation not found">>
        ELSE IF reservation.user_id # user_id
        THEN <<"cancel:", "unauthorized operation">>
        ELSE IF reservation.flight_id \notin DOMAIN self.flights
        THEN Panic   \* flights.get(..).unwrap()
        ELSE
        LET flight == self.flights[reservation.flight_id]
            current_dt == parse_from_str(current_datetime)
            flight_dt == get_flight_datetime(reservation.date, flight)
        IN  IF current_dt = Err
            THEN <<"cancel:", "invalid datetime">>
            ELSE IF flight_dt = None
            THEN <<"cancel:", "invalid flight datetime">>
            ELSE IF is_too_late(current_dt[2], flight_dt[2])
            THEN <<"cancel:", "too late">>
            ELSE Ok(reservation_id)

\* process_cancel clearing the seat without marking the reservation.
process_cancel_keeps_active(self, current_datetime, user_id, reservation_id) ==
    LET checked == cancel_checks(self, current_datetime, user_id, reservation_id)
    IN  IF checked[1] # "Ok"
        THEN Returned(self, checked)
        ELSE
        LET reservation_mut == self.reservations[reservation_id]
        IN  Returned(
              [self EXCEPT
                 !.seat_reservations =
                     unreserve_seat(self, reservation_mut.date,
                                    reservation_mut.flight_id,
                                    reservation_mut.seat_id)],
              <<"cancel:", "success">>)

\* process_cancel clearing the seat of a reservation in the ledger before
\* the checks.
process_cancel_clears_first(self, current_datetime, user_id, reservation_id) ==
    LET checked == cancel_checks(self, current_datetime, user_id, reservation_id)
        cleared ==
            IF reservation_id \in DOMAIN self.reservations
            THEN [self EXCEPT
                    !.seat_reservations =
                        unreserve_seat(self, self.reservations[reservation_id].date,
                                       self.reservations[reservation_id].flight_id,
                                       self.reservations[reservation_id].seat_id)]
            ELSE self
    IN  IF checked[1] # "Ok"
        THEN Returned(cleared, checked)
        ELSE
        Returned(
          [cleared EXCEPT !.reservations[reservation_id].is_cancelled = TRUE],
          <<"cancel:", "success">>)

\* ReservationSystem::process_cancel
process_cancel(self, current_datetime, user_id, reservation_id) ==
    LET checked == cancel_checks(self, current_datetime, user_id, reservation_id)
    IN  IF checked[1] # "Ok"
        THEN Returned(self, checked)
        ELSE
        LET reservation_mut == self.reservations[reservation_id]
            cancelled == [self EXCEPT
                    !.reservations[reservation_id].is_cancelled = TRUE]
        IN  Returned(
              [cancelled EXCEPT
                 !.seat_reservations =
                     unreserve_seat(cancelled, reservation_mut.date,
                                    reservation_mut.flight_id,
                                    reservation_mut.seat_id)],
              <<"cancel:", "success">>)

----------------------------------------------------------------------------
(* The three queries.  HashMap::values() yields the entries in an order the *)
(* program does not control: the handlers that iterate a map take that      *)
(* order as `order`, a sequence listing the keys of the map once each.      *)

\* Vec::push_str / concatenation of a sequence of strings.
RECURSIVE Concat(_)
Concat(strings) ==
    IF strings = <<>> THEN <<>> ELSE Head(strings) \o Concat(Tail(strings))

\* Ord::cmp on two integers.
cmp(a, b) == IF a < b THEN "Less" ELSE IF a > b THEN "Greater" ELSE "Equal"

RECURSIVE cmp_seq(_, _)
\* Ord::cmp on two values compared field by field (a NaiveDateTime as
\* <<day, second>>; a zero-padded "HH:MM:SS" text as <<H, M, S>>).
cmp_seq(a, b) ==
    IF a = <<>> /\ b = <<>> THEN "Equal"
    ELSE IF a = <<>> THEN "Less"
    ELSE IF b = <<>> THEN "Greater"
    ELSE IF cmp(Head(a), Head(b)) # "Equal" THEN cmp(Head(a), Head(b))
    ELSE cmp_seq(Tail(a), Tail(b))

\* Ordering::then
then(first, second) == IF first # "Equal" THEN first ELSE second

\* The closure |a, b| a.0.cmp(&b.0).then(a.1.cmp(&b.1))
by_key(a, b) == then(cmp_seq(a[1], b[1]), cmp(a[2], b[2]))

RECURSIVE insert_sorted(_, _)
\* e placed after every element of the sorted v that is not greater than e.
insert_sorted(v, e) ==
    IF v = <<>> THEN <<e>>
    ELSE IF by_key(e, Head(v)) = "Less" THEN <<e>> \o v
    ELSE <<Head(v)>> \o insert_sorted(Tail(v), e)

RECURSIVE sort_from(_, _)
sort_from(sorted, rest) ==
    IF rest = <<>> THEN sorted
    ELSE sort_from(insert_sorted(sorted, Head(rest)), Tail(rest))

\* sort_by leaving the entries in the order they were pushed.
sort_by_skipped(v) == v

\* slice::sort_by with the closure by_key: a stable sort.
sort_by(v) == sort_from(<<>>, v)

\* The rows of the cabin that seat search draws: 1..=20.
LastRow == 20

\* format!("{}{}", row, seat_type.as_char())
FormatSeatId(row, seat_type) == Append(FormatU32(row), as_char(seat_type))

\* seat_display showing the class of a held seat, never "X".
seat_display_never_held(self, flight, date, row, seat_type) ==
    LET seat_class == get_seat_class(flight, FormatSeatId(row, seat_type))
    IN  IF seat_class = Panic \/ seat_class = None THEN Panic
        ELSE FormatU32(seat_class[2][1])

\* process_seat_search, the displayed cell of (row, seat_type): the text of
\* the cell, or a panic when get_seat_class(..).unwrap() finds None.
seat_display(self, flight, date, row, seat_type) ==
    LET seat_id == FormatSeatId(row, seat_type)
    IN  IF is_seat_reserved(self, date, flight.flight_id, seat_id)
        THEN <<"X">>
        ELSE LET seat_class == get_seat_class(flight, seat_id)
             IN  IF seat_class = Panic \/ seat_class = None THEN Panic
                 ELSE FormatU32(seat_class[2][1])

\* process_seat_search, the first loop from `row` on: one entry per row,
\* holding the displayed cell of every seat type, or a panic.
RECURSIVE seat_rows(_, _, _, _)
seat_rows(self, flight, date, row) ==
    IF row > LastRow THEN <<>>
    ELSE
    LET row_seats == <<seat_display(self, flight, date, row, SeatTypeVariants[1]),
                       seat_display(self, flight, date, row, SeatTypeVariants[2]),
                       seat_display(self, flight, date, row, SeatTypeVariants[3]),
                       seat_display(self, flight, date, row, SeatTypeVariants[4])>>
    IN  IF \E k \in 1..Len(row_seats) : row_seats[k] = Panic THEN Panic
        ELSE LET rest == seat_rows(self, flight, date, row + 1)
             IN  IF rest = Panic THEN Panic ELSE <<row_seats>> \o rest

\* ReservationSystem::process_seat_search
process_seat_search(self, current_datetime, date, flight_id) ==
    IF flight_id \notin DOMAIN self.flights
    THEN Returned(self, <<"seat-search:", "flight not found">>)
    ELSE
    LET flight == self.flights[flight_id]
        seats == seat_rows(self, flight, date, 1)
    IN  IF seats = Panic THEN Returned(self, Panic)
        ELSE Returned(self,
               <<"seat-search:">> \o
               [k \in 1..Len(SeatTypeVariants) |->
                   Concat([row \in 1..LastRow |-> seats[row][k]])])

\* The reservation line of get-reservations, as the tuple of its fields.
reservation_line(reservation, flight) ==
    <<reservation.reservation_id, reservation.price, reservation.date,
      reservation.flight_id, reservation.seat_id, flight.departure_airport,
      flight.departure_time, flight.arrival_airport, flight.arrival_time>>

\* process_get_reservations, the first loop: the entries pushed for the
\* reservations whose ids are listed in order, or a panic at an unwrap.
RECURSIVE collect_reservations(_, _, _)
collect_reservations(self, order, user_id) ==
    IF order = <<>> THEN <<>>
    ELSE
    LET reservation == self.reservations[Head(order)]
        rest == collect_reservations(self, Tail(order), user_id)
    IN  IF reservation.user_id = user_id /\ ~reservation.is_cancelled
        THEN IF reservation.flight_id \notin DOMAIN self.flights THEN Panic
             ELSE
             LET flight == self.flights[reservation.flight_id]
                 flight_dt == get_flight_datetime(reservation.date, flight)
             IN  IF flight_dt = None \/ rest = Panic THEN Panic
                 ELSE <<<<flight_dt[2], reservation.reservation_id, reservation>>>>
                          \o rest
        ELSE rest

\* ReservationSystem::process_get_reservations
process_get_reservations(self, order, current_datetime, user_id) ==
    LET collected == collect_reservations(self, order, user_id)
    IN  IF collected = Panic THEN Returned(self, Panic)
        ELSE
        LET valid_reservations == sort_by(collected)
        IN  Returned(self,
              <<"get-reservations:", Len(valid_reservations)>> \o
              [k \in 1..Len(valid_reservations) |->
                  reservation_line(valid_reservations[k][3],
                      self.flights[valid_reservations[k][3].flight_id])])

\* process_flight_search, the first loop: the entries pushed for the flights
\* whose ids are listed in order.
RECURSIVE collect_flights(_, _, _, _)
collect_flights(self, order, departure_airport, arrival_airport) ==
    IF order = <<>> THEN <<>>
    ELSE
    LET flight == self.flights[Head(order)]
        rest == collect_flights(self, Tail(order), departure_airport,
                                arrival_airport)
    IN  IF /\ flight.departure_airport = departure_airport
           /\ flight.arrival_airport = arrival_airport
        THEN <<<<flight.departure_time, flight.flight_id, flight>>>> \o rest
        ELSE rest

\* seats_count that counts every seat of the class, held or not.
seats_count_capacity(self, date, flight, i) ==
    LET start_row == IF i = 1 THEN 1 ELSE flight.seat_classes[i - 1].column + 1
    IN  Cardinality((start_row..flight.seat_classes[i].column)
                        \X (1..Len(SeatTypeVariants)))

\* process_flight_search, the seats of class i of a flight that are not
\* reserved on the date: rows start_row..=column, every seat type.
seats_count(self, date, flight, i) ==
    LET start_row == IF i = 1 THEN 1 ELSE flight.seat_classes[i - 1].column + 1
    IN  Cardinality(
          {s \in (start_row..flight.seat_classes[i].column)
                    \X (1..Len(SeatTypeVariants)) :
              ~is_seat_reserved(self, date, flight.flight_id,
                                FormatSeatId(s[1], SeatTypeVariants[s[2]]))})

\* process_flight_search, the lines pushed for one matching flight.
flight_lines(self, date, flight) ==
    <<<<flight.flight_id, flight.departure_time, flight.arrival_time>>>> \o
    [i \in 1..Len(flight.seat_classes) |->
        <<"class", i, seats_count(self, date, flight, i),
          flight.seat_classes[i].price>>]

\* ReservationSystem::process_flight_search
process_flight_search(self, order, current_datetime, date, departure_airport, arrival_airport) ==
    LET matching_flights ==
            sort_by(collect_flights(self, order, departure_airport,
                                    arrival_airport))
    IN  Returned(self,
          <<"flight-search:", Len(matching_flights)>> \o
          Concat([k \in 1..Len(matching_flights) |->
                     flight_lines(self, date, matching_flights[k][3])]))

----------------------------------------------------------------------------
(* The catalog that main loads, and the commands it reads. *)

Date1 == <<2024, 3, 15>>
Date2 == <<2024, 3, 16>>
BadDate == <<2024, 2, 30>>

Seat1A == <<"1", "A">>
Seat11B == <<"1", "1", "B">>
Seat1E == <<"1", "E">>
SeatWide == <<"1", "U+00E9">>

\* main, the catalog loop: one add_flight per catalog entry.
LoadedSystem ==
    add_flight(
      add_flight(NewSystem, 1, 1, 2, <<10, 0, 0>>, <<12, 0, 0>>,
                 <<SeatClass(10, 100), SeatClass(20, 50)>>),
      2, 1, 2, <<9, 0, 0>>, <<11, 30, 0>>, <<SeatClass(5, 200)>>)

Nows ==
    {<<Date1, <<7, 59, 59>>>>,    \* a second before flight 1's deadline on Date1
     <<Date1, <<8, 0, 0>>>>,      \* exactly flight 1's deadline on Date1
     <<Date2, <<10, 30, 0>>>>,    \* after every departure
     <<Date1, <<24, 0, 0>>>>}     \* does not parse
Users == {"alice", "bob"}
Dates == {Date1, Date2, BadDate}
FlightIds == {1, 2, 9}
SeatIds == {Seat1A, Seat11B, Seat1E, SeatWide}
ReservationIds == 1..(MaxReservations + 1)

Self ==
    [flights |-> flights,
     reservations |-> reservations,
     seat_reservations |-> seat_reservations,
     next_reservation_id |-> next_reservation_id]

\* The handler's effect on the system, and the line main prints.
Apply(r) ==
    /\ flights' = r.self.flights
    /\ reservations' = r.self.reservations
    /\ seat_reservations' = r.self.seat_reservations
    /\ next_reservation_id' = r.self.next_reservation_id
    /\ output' = r.ret

Init ==
    /\ flights = LoadedSystem.flights
    /\ reservations = LoadedSystem.reservations
    /\ seat_reservations = LoadedSystem.seat_reservations
    /\ next_reservation_id = LoadedSystem.next_reservation_id
    /\ output = <<>>

\* The reserve commands main can read in this state: none once the process
\* has panicked, or once the ledger has handed out MaxReservations ids.
ReserveCalls ==
    IF output # Panic /\ next_reservation_id <= MaxReservations
    THEN Nows \X Users \X Dates \X FlightIds \X SeatIds
    ELSE {}

\* The cancel commands main can read in this state.
CancelCalls ==
    IF output # Panic THEN Nows \X Users \X ReservationIds ELSE {}

\* process_reserve on a command <<now, user, date, flight id, seat id>>.
DoReserve(self, c) == process_reserve(self, c[1], c[2], c[3], c[4], c[5])

\* process_cancel on a command <<now, user, reservation id>>.
DoCancel(self, c) == process_cancel(self, c[1], c[2], c[3])

\* main, the "reserve:" branch.
Reserve == \E c \in ReserveCalls : Apply(DoReserve(Self, c))

\* main, the "cancel:" branch.
Cancel == \E c \in CancelCalls : Apply(DoCancel(Self, c))

Next == Reserve \/ Cancel

Spec == Init /\ [][Next]_vars

----------------------------------------------------------------------------
(* main with its five branches: reserve, cancel and the three queries, on  *)
(* seat ids that name a row in more than one way.                           *)

Seat01A == <<"0", "1", "A">>
Seat0A == <<"0", "A">>
Seat21A == <<"2", "1", "A">>
Seat1xA == <<"1", "x", "A">>

\* main, the catalog loop: the catalog above and a flight that sells no seat
\* (s = 0) and leaves with flight 2 on the same route.
MainSystem == add_flight(LoadedSystem, 3, 1, 2, <<9, 0, 0>>, <<11, 0, 0>>, <<>>)

MainNows ==
    {<<Date1, <<6, 59, 59>>>>,    \* before every deadline on Date1
     <<Date1, <<7, 59, 59>>>>,    \* after flight 2's deadline, before flight 1's
     <<Date1, <<24, 0, 0>>>>}     \* does not parse
MainDates == {Date1, BadDate}
\* The datetime argument of the queries, which they do not read.
QueryNows == {<<Date1, <<6, 59, 59>>>>}
MainSeatIds == {Seat1A, Seat1E, SeatWide}

\* Seat ids that name row 1 with a leading zero, row 0, a row beyond every
\* seat class, and a row that is no number.
AliasSeatIds == {Seat1A, Seat01A, Seat0A, Seat21A, Seat1xA}
QueryDates == {Date1, Date2}
Airports == {1, 2}

\* The orders in which HashMap::values() can yield the entries of a map.
Orders(m) ==
    {order \in [1..Cardinality(DOMAIN m) -> DOMAIN m] :
        \A i, j \in DOMAIN order : i # j => order[i] # order[j]}

MainInit ==
    /\ flights = MainSystem.flights
    /\ reservations = MainSystem.reservations
    /\ seat_reservations = MainSystem.seat_reservations
    /\ next_reservation_id = MainSystem.next_reservation_id
    /\ output = <<>>

MainReserveCalls ==
    IF output # Panic /\ next_reservation_id <= MaxReservations
    THEN MainNows \X Users \X MainDates \X FlightIds \X MainSeatIds
    ELSE {}

AliasReserveCalls ==
    IF output # Panic /\ next_reservation_id <= MaxReservations
    THEN MainNows \X Users \X MainDates \X FlightIds \X AliasSeatIds
    ELSE {}

MainCancelCalls ==
    IF output # Panic THEN MainNows \X Users \X ReservationIds ELSE {}

SeatSearchCalls ==
    IF output # Panic THEN QueryNows \X QueryDates \X FlightIds ELSE {}

GetReservationsCalls ==
    IF output # Panic THEN QueryNows \X Users ELSE {}

FlightSearchCalls ==
    IF output # Panic THEN QueryNows \X QueryDates \X Airports \X Airports ELSE {}

\* process_seat_search on a command <<now, date, flight id>>.
DoSeatSearch(self, c) == process_seat_search(self, c[1], c[2], c[3])

\* process_get_reservations on a command <<now, user>>.
DoGetReservations(self, order, c) ==
    process_get_reservations(self, order, c[1], c[2])

\* process_flight_search on a command <<now, date, departure, arrival>>.
DoFlightSearch(self, order, c) ==
    process_flight_search(self, order, c[1], c[2], c[3], c[4])

\* main, the "reserve:" branch.
MainReserve == \E c \in MainReserveCalls : Apply(DoReserve(Self, c))

\* main, the "cancel:" branch.
MainCancel == \E c \in MainCancelCalls : Apply(DoCancel(Self, c))

\* main, the "seat-search:" branch.
SeatSearch == \E c \in SeatSearchCalls : Apply(DoSeatSearch(Self, c))

\* main, the "get-reservations:" branch.
GetReservations ==
    \E c \in GetReservationsCalls, order \in Orders(reservations) :
        Apply(DoGetReservations(Self, order, c))

\* main, the "flight-search:" branch.
FlightSearch ==
    \E c \in FlightSearchCalls, order \in Orders(flights) :
        Apply(DoFlightSearch(Self, order, c))

MainNext ==
    MainReserve \/ MainCancel \/ SeatSearch \/ GetReservations \/ FlightSearch

MainSpec == MainInit /\ [][MainNext]_vars

\* main, the "reserve:" branch, reading the seat ids of AliasSeatIds.
AliasReserve == \E c \in AliasReserveCalls : Apply(DoReserve(Self, c))

AliasNext ==
    AliasReserve \/ MainCancel \/ SeatSearch \/ GetReservations \/ FlightSearch

AliasSpec == MainInit /\ [][AliasNext]_vars

----------------------------------------------------------------------------
(* Vocabulary of the properties. *)

Active(self, id) ==
    id \in DOMAIN self.reservations /\ ~self.reservations[id].is_cancelled

KeyOf(reservation) ==
    <<reservation.date, reservation.flight_id, reservation.seat_id>>

\* Every (date, flightId, seatId) a command of the model can name.
Keys == Dates \X FlightIds \X SeatIds

Held(self, key) == is_seat_reserved(self, key[1], key[2], key[3])

IsReserveSuccess(ret) == Len(ret) = 3 /\ ret[1] = "reserve:"

ReserveFailures ==
    <<"flight not found", "invalid datetime", "invalid flight datetime",
      "too late", "already reserved", "invalid seat_id">>

IsReserveFailure(ret) ==
    /\ Len(ret) = 2
    /\ ret[1] = "reserve:"
    /\ \E k \in 1..Len(ReserveFailures) : ret[2] = ReserveFailures[k]

CancelSuccess == <<"cancel:", "success">>

CancelFailures ==
    <<"reservation not found", "unauthorized operation", "invalid datetime",
      "invalid flight datetime", "too late">>

IsCancelFailure(ret) ==
    /\ Len(ret) = 2
    /\ ret[1] = "cancel:"
    /\ \E k \in 1..Len(CancelFailures) : ret[2] = CancelFailures[k]

\* The least index of a sequence of truth values that is true, 0 if none is.
FirstTrue(flags) ==
    IF \A k \in 1..Len(flags) : ~flags[k] THEN 0
    ELSE CHOOSE k \in 1..Len(flags) : flags[k] /\ \A j \in 1..(k - 1) : ~flags[j]

\* Seconds from the first day of year 2000 to an instant <<day, second>>.
EpochDay == DayNumber(2000, 1, 1)
SecondsSinceEpoch(dt) == (dt[1] - EpochDay) * SecondsPerDay + dt[2]

\* now >= departure - 2 hours, on timestamps that parse.
AtOrAfterDeadline(now, date, departure_time) ==
    SecondsSinceEpoch(parse_from_str(now)[2])
        >= SecondsSinceEpoch(parse_from_str(<<date, departure_time>>)[2]) - 7200

----------------------------------------------------------------------------
(* C1: no double booking. *)

\* C1: in every reachable state at most one non-cancelled reservation exists
\* for any (date, flightId, seatId), and while such a reservation exists no
\* reserve of the same (date, flightId, seatId) succeeds, whoever calls it
\* and whenever.
NoDoubleBooking ==
    /\ \A i, j \in DOMAIN reservations :
          (i # j /\ Active(Self, i) /\ Active(Self, j))
              => KeyOf(reservations[i]) # KeyOf(reservations[j])
    /\ \A i \in DOMAIN reservations, c \in ReserveCalls :
          (Active(Self, i) /\ <<c[3], c[4], c[5]>> = KeyOf(reservations[i]))
              => ~IsReserveSuccess(DoReserve(Self, c).ret)

\* A reserve was refused as already reserved while a reservation is active.
NoDoubleBookingWitness ==
    /\ output = <<"reserve:", "already reserved">>
    /\ \E i \in DOMAIN reservations : Active(Self, i)

----------------------------------------------------------------------------
(* C2: the order of reserve's checks. *)

\* Which of reserve's six preconditions fail, in the order of the claim.
ReserveFails(self, now, date, flight_id, seat_id) ==
    LET known == flight_id \in DOMAIN self.flights
        now_ok == parse_from_str(now) # Err
        instant_ok == known /\ parse_from_str(
                          <<date, self.flights[flight_id].departure_time>>) # Err
    IN  <<~known,
          ~now_ok,
          known /\ ~instant_ok,
          now_ok /\ instant_ok /\
              AtOrAfterDeadline(now, date, self.flights[flight_id].departure_time),
          Held(self, <<date, flight_id, seat_id>>),
          known /\ ~IsSome(get_seat_class(self.flights[flight_id], seat_id))>>

\* C2: whenever at least one of reserve's preconditions fails, reserve
\* returns the failure of the lowest-numbered one: flight not found, invalid
\* datetime, invalid flight datetime, too late, already reserved, invalid
\* seat_id.
ReserveReportsFirstFailure ==
    [][\A c \in ReserveCalls :
          LET k == FirstTrue(ReserveFails(Self, c[1], c[3], c[4], c[5]))
          IN  (k # 0 /\ Apply(DoReserve(Self, c)))
                  => output' = <<"reserve:", ReserveFailures[k]>>]_vars

----------------------------------------------------------------------------
(* C3: what a successful reserve does. *)

\* The row a seat id names: the number before its last character.
RowOf(seat_id) == ParseU32(SubSeq(seat_id, 1, Len(seat_id) - 1))[2]

\* price is the price of the first seat class whose bound is >= row.
IsFirstClassPrice(seat_classes, row, price) ==
    \E i \in 1..Len(seat_classes) :
        /\ seat_classes[i].column >= row
        /\ \A j \in 1..(i - 1) : seat_classes[j].column < row
        /\ seat_classes[i].price = price

\* C3: a successful reserve returns (the counter's value before the call,
\* the price of the first seat class whose bound covers the row); afterwards
\* the ledger holds a new non-cancelled reservation with that id and exactly
\* the call's userId, date, flightId, seatId and that price, the seat is
\* held, the counter is one more, and every other reservation, every other
\* occupancy key and the catalog are as before.
ReserveSuccessEffect ==
    \A c \in ReserveCalls :
        LET r == DoReserve(Self, c)
            id == next_reservation_id
            key == <<c[3], c[4], c[5]>>
        IN  IsReserveSuccess(r.ret) =>
              /\ r.ret[2] = id
              /\ IsFirstClassPrice(flights[c[4]].seat_classes, RowOf(c[5]),
                                   r.ret[3])
              /\ id \notin DOMAIN reservations
              /\ DOMAIN r.self.reservations = DOMAIN reservations \cup {id}
              /\ r.self.reservations[id] =
                    [reservation_id |-> id, user_id |-> c[2], date |-> c[3],
                     flight_id |-> c[4], seat_id |-> c[5],
                     price |-> r.ret[3], is_cancelled |-> FALSE]
              /\ \A other \in DOMAIN reservations :
                    r.self.reservations[other] = reservations[other]
              /\ Held(r.self, key)
              /\ \A other \in Keys \ {key} : Held(r.self, other) = Held(Self, other)
              /\ r.self.next_reservation_id = id + 1
              /\ r.self.flights = flights

\* A second reservation was made, in the second seat class of flight 1,
\* while the first reservation is still active.
ReserveSuccessWitness ==
    /\ output = <<"reserve:", 2, 50>>
    /\ Active(Self, 1)
    /\ Active(Self, 2)

----------------------------------------------------------------------------
(* C4: a failed reserve changes nothing. *)

\* C4: a reserve that returns one of its six failures leaves the catalog,
\* the ledger, the occupancy table and the id counter as they were.
ReserveFailureChangesNothing ==
    \A c \in ReserveCalls :
        LET r == DoReserve(Self, c)
        IN  IsReserveFailure(r.ret) => r.self = Self

\* A reserve failed on its last check, after a reservation was made.
ReserveFailureWitness ==
    /\ output = <<"reserve:", "invalid seat_id">>
    /\ next_reservation_id = 2
    /\ Active(Self, 1)

----------------------------------------------------------------------------
(* C5: the order of cancel's checks. *)

\* Which of cancel's five preconditions fail, in the order of the claim.
CancelFails(self, now, user, id) ==
    LET active == Active(self, id)
        now_ok == parse_from_str(now) # Err
        departure == self.flights[self.reservations[id].flight_id].departure_time
        instant_ok == active /\
                      parse_from_str(<<self.reservations[id].date, departure>>) # Err
    IN  <<~active,
          active /\ self.reservations[id].user_id # user,
          ~now_ok,
          active /\ ~instant_ok,
          now_ok /\ instant_ok /\
              AtOrAfterDeadline(now, self.reservations[id].date, departure)>>

\* C5: whenever at least one of cancel's preconditions fails, cancel returns
\* the failure of the lowest-numbered one: reservation not found (absent or
\* cancelled), unauthorized operation, invalid datetime, invalid flight
\* datetime, too late; so a non-owner's cancel of an active reservation is
\* unauthorized even when now does not parse or is past the deadline.
CancelReportsFirstFailure ==
    \A c \in CancelCalls :
        LET k == FirstTrue(CancelFails(Self, c[1], c[2], c[3]))
        IN  k # 0 => DoCancel(Self, c).ret = <<"cancel:", CancelFailures[k]>>

\* A cancel was refused as unauthorized, in a state where a non-owner's
\* cancel with an unparsable now is refused so.
CancelOrderWitness ==
    /\ output = <<"cancel:", "unauthorized operation">>
    /\ \E c \in CancelCalls :
          /\ Active(Self, c[3])
          /\ reservations[c[3]].user_id # c[2]
          /\ parse_from_str(c[1]) = Err
          /\ DoCancel(Self, c).ret = <<"cancel:", "unauthorized operation">>

----------------------------------------------------------------------------
(* C6: what a successful cancel does. *)

\* C6: a successful cancel sets cancelled on exactly that reservation and
\* clears the held flag of exactly its (date, flightId, seatId); its other
\* fields, every other reservation, every other occupancy key, the catalog
\* and the id counter are as before.
CancelSuccessEffect ==
    \A c \in CancelCalls :
        LET r == DoCancel(Self, c)
            id == c[3]
        IN  r.ret = CancelSuccess =>
              /\ id \in DOMAIN reservations
              /\ DOMAIN r.self.reservations = DOMAIN reservations
              /\ r.self.reservations[id] =
                    [reservations[id] EXCEPT !.is_cancelled = TRUE]
              /\ \A other \in DOMAIN reservations \ {id} :
                    r.self.reservations[other] = reservations[other]
              /\ ~Held(r.self, KeyOf(reservations[id]))
              /\ \A other \in Keys \ {KeyOf(reservations[id])} :
                    Held(r.self, other) = Held(Self, other)
              /\ r.self.flights = flights
              /\ r.self.next_reservation_id = next_reservation_id

\* A reservation was cancelled while another seat of the same flight and
\* date stays held by an active reservation.
CancelSuccessWitness ==
    /\ output = CancelSuccess
    /\ \E i, j \in DOMAIN reservations :
          /\ reservations[i].is_cancelled
          /\ Active(Self, j)
          /\ reservations[i].date = reservations[j].date
          /\ reservations[i].flight_id = reservations[j].flight_id
          /\ Held(Self, KeyOf(reservations[j]))

----------------------------------------------------------------------------
(* C7: a cancelled seat can be reserved again. *)

\* C7: once a reservation has been cancelled and nobody holds its seat, a
\* reserve of the same (date, flightId, seatId) by a different user with now
\* before the deadline succeeds, with an id greater than the cancelled one.
CancelReversible ==
    \A i \in DOMAIN reservations, c \in ReserveCalls :
        LET cancelled == reservations[i]
            departure == flights[cancelled.flight_id].departure_time
        IN  ( /\ cancelled.is_cancelled
              /\ \A j \in DOMAIN reservations :
                    Active(Self, j) => KeyOf(reservations[j]) # KeyOf(cancelled)
              /\ <<c[3], c[4], c[5]>> = KeyOf(cancelled)
              /\ c[2] # cancelled.user_id
              /\ parse_from_str(c[1]) # Err
              /\ ~AtOrAfterDeadline(c[1], c[3], departure) )
            => /\ IsReserveSuccess(DoReserve(Self, c).ret)
               /\ DoReserve(Self, c).ret[2] > i

\* Reservation 1 was cancelled and its seat is now reserved, as
\* reservation 2, by another user.
CancelReversibleWitness ==
    /\ IsReserveSuccess(output)
    /\ output[2] = 2
    /\ reservations[1].is_cancelled
    /\ Active(Self, 2)
    /\ KeyOf(reservations[1]) = KeyOf(reservations[2])
    /\ reservations[1].user_id # reservations[2].user_id

----------------------------------------------------------------------------
(* C8: the deadline. *)

\* C8: with every earlier precondition satisfied, reserve and cancel succeed
\* when now is strictly before departure minus 2 hours and fail with too
\* late when now is at or after it.
DeadlineRule ==
    /\ \A c \in ReserveCalls :
          ( /\ c[4] \in DOMAIN flights
            /\ parse_from_str(c[1]) # Err
            /\ parse_from_str(<<c[3], flights[c[4]].departure_time>>) # Err
            /\ ~Held(Self, <<c[3], c[4], c[5]>>)
            /\ IsSome(get_seat_class(flights[c[4]], c[5])) )
          => IF AtOrAfterDeadline(c[1], c[3], flights[c[4]].departure_time)
             THEN DoReserve(Self, c).ret = <<"reserve:", "too late">>
             ELSE IsReserveSuccess(DoReserve(Self, c).ret)
    /\ \A c \in CancelCalls :
          ( /\ Active(Self, c[3])
            /\ reservations[c[3]].user_id = c[2]
            /\ parse_from_str(c[1]) # Err )
          => IF AtOrAfterDeadline(c[1], reservations[c[3]].date,
                     flights[reservations[c[3]].flight_id].departure_time)
             THEN DoCancel(Self, c).ret = <<"cancel:", "too late">>
             ELSE DoCancel(Self, c).ret = CancelSuccess

\* The owner's cancel was refused as too late, in a state where the owner's
\* cancel exactly 2 hours before departure is refused so.
DeadlineWitness ==
    /\ output = <<"cancel:", "too late">>
    /\ \E c \in CancelCalls :
          /\ Active(Self, c[3])
          /\ reservations[c[3]].user_id = c[2]
          /\ parse_from_str(c[1]) # Err
          /\ SecondsSinceEpoch(parse_from_str(c[1])[2]) =
                SecondsSinceEpoch(parse_from_str(
                    <<reservations[c[3]].date,
                      flights[reservations[c[3]].flight_id].departure_time>>)[2])
                  - 7200
          /\ DoCancel(Self, c).ret = <<"cancel:", "too late">>

----------------------------------------------------------------------------
(* C9: ownership. *)

\* C9 as stated: a cancel by a user other than the owner of a reservation in
\* the ledger always fails with unauthorized operation and changes nothing.
NonOwnerCancelUnauthorized ==
    [][\A c \in CancelCalls :
          ( /\ c[3] \in DOMAIN reservations
            /\ reservations[c[3]].user_id # c[2]
            /\ Apply(DoCancel(Self, c)) )
          => /\ output' = <<"cancel:", "unauthorized operation">>
             /\ UNCHANGED <<flights, reservations, seat_reservations,
                            next_reservation_id>>]_vars

\* C9, amended: a cancel by a user other than the owner of a reservation in
\* the ledger changes nothing, whatever now is: it fails with unauthorized
\* operation while the reservation is active and with reservation not found
\* once it is cancelled; and no command makes an active reservation
\* cancelled but a cancel of that id by its owner.
NonOwnerCancelRefused ==
    /\ \A c \in CancelCalls :
          (c[3] \in DOMAIN reservations /\ reservations[c[3]].user_id # c[2])
          => /\ DoCancel(Self, c).self = Self
             /\ DoCancel(Self, c).ret =
                   IF reservations[c[3]].is_cancelled
                   THEN <<"cancel:", "reservation not found">>
                   ELSE <<"cancel:", "unauthorized operation">>
    /\ \A c \in CancelCalls, i \in DOMAIN reservations :
          (Active(Self, i) /\ ~Active(DoCancel(Self, c).self, i))
          => (c[3] = i /\ c[2] = reservations[i].user_id)
    /\ \A c \in ReserveCalls, i \in DOMAIN reservations :
          Active(Self, i) => Active(DoReserve(Self, c).self, i)

\* A cancel was refused as unauthorized, in a state where a non-owner's
\* cancel after the deadline is refused so.
NonOwnerCancelWitness ==
    /\ output = <<"cancel:", "unauthorized operation">>
    /\ \E c \in CancelCalls :
          /\ Active(Self, c[3])
          /\ reservations[c[3]].user_id # c[2]
          /\ parse_from_str(c[1]) # Err
          /\ AtOrAfterDeadline(c[1], reservations[c[3]].date,
                 flights[reservations[c[3]].flight_id].departure_time)
          /\ DoCancel(Self, c).ret = <<"cancel:", "unauthorized operation">>

----------------------------------------------------------------------------
(* C10: a cancellation is permanent. *)

\* A cancel of an id that is absent from the ledger or cancelled fails with
\* reservation not found and changes nothing, whoever calls it and whenever.
InactiveCancelRejected ==
    \A c \in CancelCalls :
        ~Active(Self, c[3])
        => /\ DoCancel(Self, c).ret = <<"cancel:", "reservation not found">>
           /\ DoCancel(Self, c).self = Self

\* No step removes a reservation, changes a field of one other than
\* is_cancelled, or makes a cancelled one active.
LedgerKept ==
    \A i \in DOMAIN reservations :
        /\ i \in DOMAIN reservations'
        /\ reservations'[i] =
              [reservations[i] EXCEPT !.is_cancelled = reservations'[i].is_cancelled]
        /\ reservations[i].is_cancelled => reservations'[i].is_cancelled

\* C10: once cancelled a reservation stays cancelled and every later cancel
\* of it fails with reservation not found, as does a cancel of an id never
\* assigned; reservations are never removed and no field of a stored
\* reservation but cancelled ever changes.
CancellationPermanent == []InactiveCancelRejected /\ [][LedgerKept]_vars

\* A cancel was refused as not found for a reservation that is in the
\* ledger, cancelled.
CancellationPermanentWitness ==
    /\ output = <<"cancel:", "reservation not found">>
    /\ \E i \in DOMAIN reservations : reservations[i].is_cancelled

----------------------------------------------------------------------------
(* Vocabulary of the properties of the queries. *)

Letters == {"A", "B", "C", "D"}

\* The seat id "rL": the decimal text of row r followed by the letter L.
SeatName(r, letter) == FormatU32(r) \o <<letter>>

\* The ids of the non-cancelled reservations of a date and flight.
ActiveFor(self, date, flight_id) ==
    {i \in DOMAIN self.reservations :
        /\ Active(self, i)
        /\ self.reservations[i].date = date
        /\ self.reservations[i].flight_id = flight_id}

\* The sequences that list every element of a finite set once.
Enumerations(S) ==
    {s \in [1..Cardinality(S) -> S] : \A i, j \in 1..Cardinality(S) : i # j => s[i] # s[j]}

\* The seat classes of the flight cover rows 1..20.
CoversCabin(flight) ==
    \A r \in 1..20 : \E i \in 1..Len(flight.seat_classes) :
        flight.seat_classes[i].column >= r

\* A line of a returned text names a query.
IsQueryLine(ret) ==
    /\ ret # <<>>
    /\ ret[1] \in {"seat-search:", "get-reservations:", "flight-search:"}

----------------------------------------------------------------------------
(* C11: reservation ids. *)

\* The ledger's keys are 1..(counter - 1) and each reservation's id is its key.
IdsAreKeys ==
    /\ DOMAIN reservations = 1..(next_reservation_id - 1)
    /\ \A i \in DOMAIN reservations : reservations[i].reservation_id = i

\* A step moves the counter only by a successful reserve, which returns the
\* counter's value and moves it by one; every successful reserve does so.
IdsInOrder ==
    /\ (next_reservation_id' # next_reservation_id \/ IsReserveSuccess(output'))
          => /\ IsReserveSuccess(output')
             /\ output'[2] = next_reservation_id
             /\ next_reservation_id' = next_reservation_id + 1
             /\ DOMAIN reservations' = DOMAIN reservations \cup {next_reservation_id}
    /\ next_reservation_id' = next_reservation_id
          => DOMAIN reservations' = DOMAIN reservations

\* C11: reservation ids start at 1 and the n-th successful reserve returns
\* n, whatever failed reserves, cancels and queries come in between; in
\* every reachable state the ledger's keys are exactly 1..(counter - 1) and
\* each stored reservation's id equals its key.
IdsSequential == []IdsAreKeys /\ [][IdsInOrder]_vars

\* The second successful reserve returned 2, after a query was answered and
\* a reserve failed in between or before: the counter stands at 3.
IdsSequentialWitness ==
    /\ IsReserveSuccess(output)
    /\ output[2] = 2
    /\ next_reservation_id = 3
    /\ reservations[1].is_cancelled

----------------------------------------------------------------------------
(* C12: get-reservations. *)

\* The instant a reservation departs, in seconds.
DepartureInstant(self, i) ==
    SecondsSinceEpoch(parse_from_str(
        <<self.reservations[i].date,
          self.flights[self.reservations[i].flight_id].departure_time>>)[2])

\* The non-cancelled reservations of a user.
ActiveOf(self, user) ==
    {i \in DOMAIN self.reservations :
        Active(self, i) /\ self.reservations[i].user_id = user}

----------------------------------------------------------------------------
(* C13: flight-search. *)

\* A departure time of day in seconds.
SecondOfDay(time) == time[1] * 3600 + time[2] * 60 + time[3]

\* The flights of a route, in ascending order of (departure time, id).
RouteInOrder(self, departure_airport, arrival_airport) ==
    LET matching == {f \in DOMAIN self.flights :
                        /\ self.flights[f].departure_airport = departure_airport
                        /\ self.flights[f].arrival_airport = arrival_airport}
    IN  CHOOSE s \in Enumerations(matching) :
            \A k, l \in 1..Len(s) :
                k < l =>
                  \/ SecondOfDay(self.flights[s[k]].departure_time)
                        < SecondOfDay(self.flights[s[l]].departure_time)
                  \/ /\ self.flights[s[k]].departure_time
                            = self.flights[s[l]].departure_time
                     /\ s[k] < s[l]

\* The seats of class i of a flight that nobody holds on a date.
Available(self, date, flight, i) ==
    LET low == IF i = 1 THEN 0 ELSE flight.seat_classes[i - 1].column
        high == flight.seat_classes[i].column
    IN  Cardinality({seat \in ((low + 1)..high) \X Letters :
            ~Held(self, <<date, flight.flight_id, SeatName(seat[1], seat[2])>>)})

\* What flight-search is to report for one flight.
FlightReport(self, date, flight) ==
    <<<<flight.flight_id, flight.departure_time, flight.arrival_time>>>> \o
    [i \in 1..Len(flight.seat_classes) |->
        <<"class", i, Available(self, date, flight, i),
          flight.seat_classes[i].price>>]

\* C13: flightSearch returns exactly the flights of the route, in ascending
\* order of (departure time, flight id), and for each flight and seat class
\* the number of seats of the class's rows, letters A..D, that are not held
\* on that date and flight, with the class's price, whatever the order in
\* which the catalog yields its flights.
FlightSearchExact ==
    \A c \in FlightSearchCalls, order \in Orders(flights) :
        LET route == RouteInOrder(Self, c[3], c[4])
        IN  DoFlightSearch(Self, order, c).ret =
              <<"flight-search:", Len(route)>> \o
              Concat([k \in 1..Len(route) |->
                        FlightReport(Self, c[2], flights[route[k]])])

\* A search listed flights 2, 3 and 1 in this order, with 39 seats left in
\* the first class of flight 1.
FlightSearchWitness ==
    /\ Len(output) = 8
    /\ output[1] = "flight-search:"
    /\ output[2] = 3
    /\ output[3][1] = 2
    /\ output[5][1] = 3
    /\ output[6][1] = 1
    /\ output[7] = <<"class", 1, 39, 100>>

----------------------------------------------------------------------------
(* C14: seat-search. *)

\* The index of the first seat class whose bound is >= row.
ClassOfRow(seat_classes, row) ==
    CHOOSE i \in 1..Len(seat_classes) :
        /\ seat_classes[i].column >= row
        /\ \A j \in 1..(i - 1) : seat_classes[j].column < row

\* The letters in the order of the lines of seat-search.
LetterOfLine == <<"A", "B", "C", "D">>

\* C14: seatSearch fails with flight not found iff the flight is not in the
\* catalog; for a flight whose seat classes cover rows 1..20 it returns the
\* four lines A, B, C, D of 20 cells in ascending row order, the cell of
\* (row r, letter L) being X iff seat rL is held for that date and flight
\* and otherwise the index of the first seat class whose bound is >= r.
SeatSearchGrid ==
    \A c \in SeatSearchCalls :
        LET ret == DoSeatSearch(Self, c).ret
        IN  /\ ret = <<"seat-search:", "flight not found">>
                  <=> c[3] \notin DOMAIN flights
            /\ (c[3] \in DOMAIN flights /\ CoversCabin(flights[c[3]]))
                  => /\ Len(ret) = 5
                     /\ ret[1] = "seat-search:"
                     /\ \A k \in 1..4 :
                           /\ Len(ret[k + 1]) = 20
                           /\ \A r \in 1..20 :
                                 ret[k + 1][r] =
                                   IF Held(Self, <<c[2], c[3],
                                                   SeatName(r, LetterOfLine[k])>>)
                                   THEN "X"
                                   ELSE FormatU32(ClassOfRow(
                                            flights[c[3]].seat_classes, r))[1]

\* A grid was returned with seat 1A held, while a seat is held on another
\* flight of the same date.
SeatSearchWitness ==
    /\ Len(output) = 5
    /\ output[1] = "seat-search:"
    /\ output[2][1] = "X"
    /\ \E i \in DOMAIN reservations :
          Active(Self, i) /\ reservations[i].flight_id = 2

----------------------------------------------------------------------------
(* C15: seat validity. *)

\* The row text of a seat id: everything before its last character.
RowText(seat_id) == SubSeq(seat_id, 1, Len(seat_id) - 1)

\* A seat id names a seat of the flight: a letter of A..D after a row that
\* is a number, at least 1 and at most the last seat class's bound.
NamesSeat(flight, seat_id) ==
    /\ seat_id # <<>>
    /\ seat_id[Len(seat_id)] \in Letters
    /\ RowText(seat_id) # <<>>
    /\ \A k \in 1..Len(RowText(seat_id)) : RowText(seat_id)[k] \in DigitChars
    /\ DigitsValue(RowText(seat_id), 0) >= 1
    /\ flight.seat_classes # <<>>
    /\ DigitsValue(RowText(seat_id), 0)
          <= flight.seat_classes[Len(flight.seat_classes)].column

\* No reservation of the ledger is for a seat id that names no seat.
NoStrayReservation ==
    \A i \in DOMAIN reservations :
        reservations[i].flight_id \in DOMAIN flights
            => NamesSeat(flights[reservations[i].flight_id],
                         reservations[i].seat_id)

\* A reserve of a seat id that names no seat of its flight fails and changes
\* nothing, with invalid seat_id when no earlier check of reserve fails.
StrayReserveFails ==
    \A c \in AliasReserveCalls :
        (/\ c[4] \in DOMAIN flights
         /\ ~NamesSeat(flights[c[4]], c[5])
         /\ Apply(DoReserve(Self, c)))
            => /\ IsReserveFailure(output')
               /\ UNCHANGED <<flights, reservations, seat_reservations,
                              next_reservation_id>>
               /\ FirstTrue(SubSeq(ReserveFails(Self, c[1], c[3], c[4], c[5]),
                                   1, 5)) = 0
                     => output' = <<"reserve:", "invalid seat_id">>

\* C15: a seat id is rejected as invalid whenever its letter is not one of
\* A, B, C, D, its row does not parse as an integer, its row is <= 0 or its
\* row exceeds the last seat class's bound; no successful reservation ever
\* exists for such a seat, and reserve on it returns invalid seat_id with no
\* state change.
InvalidSeatRejected == []NoStrayReservation /\ [][StrayReserveFails]_vars

----------------------------------------------------------------------------
(* C16: no command aborts the process. *)

\* C16: for any loaded catalog, flights whose seat classes do not cover rows
\* 1..20 included, and any sequence of commands with any arguments, every
\* handler returns its success payload or one of its named failures: no
\* handler aborts, and the system can process the next command.
NoCommandAborts == output # Panic

----------------------------------------------------------------------------
(* C17: the ledger and the occupancy table agree. *)

\* The keys (date, flightId, seatId) recorded in the occupancy table.
RecordedKeys ==
    UNION {UNION {{<<date, flight_id, seat_id>> :
                      seat_id \in DOMAIN seat_reservations[date][flight_id]} :
                  flight_id \in DOMAIN seat_reservations[date]} :
           date \in DOMAIN seat_reservations}

\* The non-cancelled reservations of a key.
ActiveAt(self, key) ==
    {i \in DOMAIN self.reservations :
        Active(self, i) /\ KeyOf(self.reservations[i]) = key}

\* C17: in every reachable state the held flag of a key (date, flightId,
\* seatId) is true iff exactly one non-cancelled reservation of the ledger
\* has that date, flightId and seatId: no seat is held without an active
\* reservation and no active reservation exists whose seat is not held.
LedgerMatchesOccupancy ==
    /\ \A key \in RecordedKeys \cup (MainDates \X FlightIds \X MainSeatIds) :
          Held(Self, key) <=> Cardinality(ActiveAt(Self, key)) = 1
    /\ \A i \in DOMAIN reservations :
          Active(Self, i) => Held(Self, KeyOf(reservations[i]))

\* A cancel succeeded: its key stays recorded, not held, next to the held
\* key of an active reservation.
LedgerMatchesOccupancyWitness ==
    /\ output = CancelSuccess
    /\ \E key \in RecordedKeys : ~Held(Self, key)
    /\ \E key \in RecordedKeys : Held(Self, key)
    /\ \E i \in DOMAIN reservations : reservations[i].is_cancelled

----------------------------------------------------------------------------
(* C18: read-only operations. *)

\* The three queries, whatever they return, and every cancel that returns a
\* failure hand back the system they were given.
QueriesChangeNothing ==
    /\ \A c \in SeatSearchCalls : DoSeatSearch(Self, c).self = Self
    /\ \A c \in GetReservationsCalls, order \in Orders(reservations) :
          DoGetReservations(Self, order, c).self = Self
    /\ \A c \in FlightSearchCalls, order \in Orders(flights) :
          DoFlightSearch(Self, order, c).self = Self
    /\ \A c \in MainCancelCalls :
          IsCancelFailure(DoCancel(Self, c).ret) => DoCancel(Self, c).self = Self

\* A step that prints a query's text or a cancel's failure changes nothing
\* of the system, and no step changes the catalog.
ReadOnlyStep ==
    /\ (IsQueryLine(output') \/ IsCancelFailure(output'))
          => UNCHANGED <<flights, reservations, seat_reservations,
                         next_reservation_id>>
    /\ flights' = flights

\* C18: seatSearch, getReservations and flightSearch, successful or failing,
\* and every cancel that returns a failure leave the catalog, the ledger,
\* the occupancy table and the id counter unchanged; the catalog is never
\* changed by any command after load.
ReadOnlyOperations == []QueriesChangeNothing /\ [][ReadOnlyStep]_vars

\* A cancel was refused as too late while the seat of its reservation is
\* held.
ReadOnlyOperationsWitness ==
    /\ output = <<"cancel:", "too late">>
    /\ \E i \in DOMAIN reservations :
          Active(Self, i) /\ Held(Self, KeyOf(reservations[i]))

----------------------------------------------------------------------------
(* C19: stored reservations are valid. *)

\* C19: every reservation stored in the ledger references a flight of the
\* catalog and has a date that, joined with that flight's departure time,
\* forms a valid instant; so cancel never returns invalid flight datetime
\* and getReservations can compute the sort key of every active
\* reservation.
StoredReservationsValid ==
    /\ \A i \in DOMAIN reservations :
          /\ reservations[i].flight_id \in DOMAIN flights
          /\ parse_from_str(
                 <<reservations[i].date,
                   flights[reservations[i].flight_id].departure_time>>) # Err
    /\ \A c \in MainCancelCalls :
          DoCancel(Self, c).ret # <<"cancel:", "invalid flight datetime">>
    /\ \A c \in GetReservationsCalls, order \in Orders(reservations) :
          DoGetReservations(Self, order, c).ret # Panic

\* A reserve for a date that does not exist was refused, with a reservation
\* in the ledger.
StoredReservationsValidWitness ==
    /\ output = <<"reserve:", "invalid flight datetime">>
    /\ \E i \in DOMAIN reservations : Active(Self, i)

----------------------------------------------------------------------------
(* C20: the queries and the ledger count the same seats. *)

RECURSIVE SumOf(_)
\* The sum of a sequence of numbers.
SumOf(numbers) ==
    IF numbers = <<>> THEN 0 ELSE Head(numbers) + SumOf(Tail(numbers))

\* The number of X cells of a grid returned by seat-search.
HeldCells(grid) ==
    Cardinality({cell \in (1..4) \X (1..20) : grid[cell[1] + 1][cell[2]] = "X"})

\* The available counts that a flight-search text reports for a flight: the
\* class lines after the flight's line.
ReportedCounts(ret, flight) ==
    LET at == CHOOSE k \in 3..Len(ret) :
                  Len(ret[k]) = 3 /\ ret[k][1] = flight.flight_id
    IN  [i \in 1..Len(flight.seat_classes) |-> ret[at + i][3]]

\* The physical seat of a reservation: its row number and its letter.
PhysicalSeat(reservation) ==
    <<DigitsValue(RowText(reservation.seat_id), 0),
      reservation.seat_id[Len(reservation.seat_id)]>>

\* C20: in every reachable state, for a flight whose seat classes cover rows
\* 1..20 and any date, the number of X cells of seatSearch equals the number
\* of non-cancelled reservations of that date and flight, and the available
\* counts of flightSearch for the flight sum to 80 minus that number; no two
\* active reservations hold the same (row number, letter) of a flight on a
\* date, however their seat ids are written, and none holds a seat outside
\* rows 1..20.
QueriesAgreeWithLedger ==
    \A date \in QueryDates, f \in DOMAIN flights :
        CoversCabin(flights[f]) =>
          LET active == ActiveFor(Self, date, f)
          IN  /\ \A now \in QueryNows :
                    HeldCells(DoSeatSearch(Self, <<now, date, f>>).ret)
                        = Cardinality(active)
              /\ \A now \in QueryNows, order \in Orders(flights) :
                    SumOf(ReportedCounts(
                        DoFlightSearch(Self, order,
                            <<now, date, flights[f].departure_airport,
                              flights[f].arrival_airport>>).ret,
                        flights[f])) = 80 - Cardinality(active)
              /\ \A i, j \in active :
                    i # j => PhysicalSeat(reservations[i])
                                 # PhysicalSeat(reservations[j])
              /\ \A i \in active : PhysicalSeat(reservations[i])[1] \in 1..20

====
